---- MODULE Spec2Model ----
(***************************************************************************)
(* Model of scripts/downloadImages.ts: the image resolver                  *)
(* (searchUnsplashRabbit), the downloader (downloadImage) and the batch    *)
(* materializer (main).  Strings that the code transforms (toLowerCase,    *)
(* encodeURIComponent, string concatenation) are sequences of one-character*)
(* strings, so the transformations are computed and not assumed.           *)
(***************************************************************************)
EXTENDS Integers, Sequences, FiniteSets, TLC

(* ------------------------------ bounds --------------------------------- *)

\* Number of catalog entries taken from the catalog excerpt.
CatalogLen == 3

\* Number of times the script is started on the same file system.
MaxRuns == 2

(* ------------------------- JavaScript values --------------------------- *)

\* process.env.X of an unset variable
Undefined == "<undefined>"

\* the null returned by searchUnsplashRabbit
Null == "<null>"

\* JavaScript truthiness of a string | undefined | null value
Truthy(v) == v # Undefined /\ v # Null /\ v # ""

\* Values the environment can give UNSPLASH_ACCESS_KEY (unset, empty, set).
EnvValues == {Undefined, "", "key-abc"}

(* ------------------------------ strings -------------------------------- *)

UpperCase == <<"A","B","C","D","E","F","G","H","I","J","K","L","M","N","O","P","Q","R","S","T","U","V","W","X","Y","Z">>

LowerCase == <<"a","b","c","d","e","f","g","h","i","j","k","l","m","n","o","p","q","r","s","t","u","v","w","x","y","z">>

Digits == <<"0","1","2","3","4","5","6","7","8","9">>

Range(s) == {s[i] : i \in DOMAIN s}

\* String.prototype.toLowerCase on one character
ToLowerChar(c) ==
  IF c \in Range(UpperCase)
  THEN LowerCase[CHOOSE i \in DOMAIN UpperCase : UpperCase[i] = c]
  ELSE c

\* String.prototype.toLowerCase
ToLowerCase(s) == [i \in DOMAIN s |-> ToLowerChar(s[i])]

\* Characters encodeURIComponent leaves alone.
Unreserved ==
  Range(UpperCase) \cup Range(LowerCase) \cup Range(Digits)
    \cup {"-", "_", ".", "!", "~", "*", "'", "(", ")"}

\* Percent escapes of the reserved ASCII characters that occur in queries.
PercentEscape ==
     (" " :> <<"%","2","0">>)
  @@ ("&" :> <<"%","2","6">>)
  @@ ("/" :> <<"%","2","F">>)
  @@ ("%" :> <<"%","2","5">>)

RECURSIVE EncodeURIComponent(_)
EncodeURIComponent(s) ==
  IF s = <<>> THEN <<>>
  ELSE (IF Head(s) \in Unreserved THEN <<Head(s)>> ELSE PercentEscape[Head(s)])
         \o EncodeURIComponent(Tail(s))

(* ------------------------- contextual queries -------------------------- *)

contextualQueries ==
     (100 :> <<"r","a","b","b","i","t"," ","w","a","i","t","i","n","g"," ","l","i","s","t","e","n","i","n","g">>)
  @@ (101 :> <<"r","a","b","b","i","t"," ","c","h","a","n","g","i","n","g"," ","s","w","i","t","c","h","i","n","g">>)
  @@ (102 :> <<"r","a","b","b","i","t"," ","w","o","r","k","i","n","g"," ","b","u","s","y"," ","p","r","o","c","e","s","s","i","n","g">>)
  @@ (103 :> <<"r","a","b","b","i","t"," ","p","r","e","p","a","r","i","n","g"," ","g","e","t","t","i","n","g"," ","r","e","a","d","y">>)
  @@ (200 :> <<"r","a","b","b","i","t"," ","h","a","p","p","y"," ","s","u","c","c","e","s","s","f","u","l">>)
  @@ (201 :> <<"r","a","b","b","i","t"," ","b","u","i","l","d","i","n","g"," ","c","r","e","a","t","i","n","g">>)
  @@ (202 :> <<"r","a","b","b","i","t"," ","n","o","d","d","i","n","g"," ","a","c","c","e","p","t","i","n","g">>)
  @@ (203 :> <<"r","a","b","b","i","t"," ","m","e","s","s","e","n","g","e","r"," ","d","e","l","i","v","e","r","i","n","g">>)
  @@ (204 :> <<"r","a","b","b","i","t"," ","e","m","p","t","y"," ","b","l","a","n","k">>)
  @@ (205 :> <<"r","a","b","b","i","t"," ","c","l","e","a","n","i","n","g"," ","r","e","f","r","e","s","h","i","n","g">>)
  @@ (206 :> <<"r","a","b","b","i","t"," ","e","a","t","i","n","g"," ","p","a","r","t","i","a","l">>)
  @@ (207 :> <<"r","a","b","b","i","t"," ","m","u","l","t","i","p","l","e"," ","g","r","o","u","p">>)
  @@ (208 :> <<"r","a","b","b","i","t"," ","a","l","r","e","a","d","y"," ","d","o","n","e">>)
  @@ (226 :> <<"r","a","b","b","i","t"," ","t","r","a","n","s","f","o","r","m","e","d"," ","d","i","f","f","e","r","e","n","t">>)
  @@ (300 :> <<"r","a","b","b","i","t"," ","c","h","o","o","s","i","n","g"," ","o","p","t","i","o","n","s"," ","p","a","t","h","s">>)
  @@ (301 :> <<"r","a","b","b","i","t"," ","m","o","v","i","n","g"," ","p","e","r","m","a","n","e","n","t","l","y">>)
  @@ (302 :> <<"r","a","b","b","i","t"," ","h","o","p","p","i","n","g"," ","t","e","m","p","o","r","a","r","y">>)
  @@ (303 :> <<"r","a","b","b","i","t"," ","p","o","i","n","t","i","n","g"," ","d","i","r","e","c","t","i","n","g">>)
  @@ (304 :> <<"r","a","b","b","i","t"," ","s","a","m","e"," ","u","n","c","h","a","n","g","e","d">>)
  @@ (305 :> <<"r","a","b","b","i","t"," ","b","e","h","i","n","d"," ","f","e","n","c","e"," ","p","r","o","x","y">>)
  @@ (306 :> <<"r","a","b","b","i","t"," ","c","o","n","f","u","s","e","d"," ","o","l","d">>)
  @@ (307 :> <<"r","a","b","b","i","t"," ","d","e","t","o","u","r"," ","t","e","m","p","o","r","a","r","y">>)
  @@ (308 :> <<"r","a","b","b","i","t"," ","m","o","v","e","d"," ","n","e","w"," ","h","o","m","e">>)
  @@ (400 :> <<"r","a","b","b","i","t"," ","c","o","n","f","u","s","e","d"," ","q","u","e","s","t","i","o","n">>)
  @@ (401 :> <<"r","a","b","b","i","t"," ","g","u","a","r","d"," ","b","l","o","c","k","i","n","g">>)
  @@ (402 :> <<"r","a","b","b","i","t"," ","m","o","n","e","y"," ","p","a","y","m","e","n","t">>)
  @@ (403 :> <<"r","a","b","b","i","t"," ","f","o","r","b","i","d","d","e","n"," ","n","o"," ","e","n","t","r","y">>)
  @@ (404 :> <<"r","a","b","b","i","t"," ","l","o","s","t"," ","h","i","d","i","n","g"," ","m","i","s","s","i","n","g">>)
  @@ (405 :> <<"r","a","b","b","i","t"," ","s","t","o","p"," ","r","e","j","e","c","t","e","d">>)
  @@ (406 :> <<"r","a","b","b","i","t"," ","p","i","c","k","y"," ","r","e","f","u","s","i","n","g">>)
  @@ (407 :> <<"r","a","b","b","i","t"," ","g","a","t","e","k","e","e","p","e","r">>)
  @@ (408 :> <<"r","a","b","b","i","t"," ","s","l","e","e","p","i","n","g"," ","t","i","m","e","o","u","t">>)
  @@ (409 :> <<"r","a","b","b","i","t"," ","f","i","g","h","t","i","n","g"," ","c","o","n","f","l","i","c","t">>)
  @@ (410 :> <<"r","a","b","b","i","t"," ","g","o","n","e"," ","e","m","p","t","y">>)
  @@ (411 :> <<"r","a","b","b","i","t"," ","m","e","a","s","u","r","i","n","g"," ","l","e","n","g","t","h">>)
  @@ (412 :> <<"r","a","b","b","i","t"," ","r","e","q","u","i","r","e","m","e","n","t","s"," ","f","a","i","l","e","d">>)
  @@ (413 :> <<"r","a","b","b","i","t"," ","t","o","o"," ","b","i","g"," ","l","a","r","g","e">>)
  @@ (414 :> <<"r","a","b","b","i","t"," ","l","o","n","g"," ","s","t","r","e","t","c","h","e","d">>)
  @@ (415 :> <<"r","a","b","b","i","t"," ","w","r","o","n","g"," ","f","o","r","m","a","t">>)
  @@ (416 :> <<"r","a","b","b","i","t"," ","r","e","a","c","h","i","n","g"," ","u","n","r","e","a","c","h","a","b","l","e">>)
  @@ (417 :> <<"r","a","b","b","i","t"," ","d","i","s","a","p","p","o","i","n","t","e","d"," ","e","x","p","e","c","t","a","t","i","o","n">>)
  @@ (418 :> <<"r","a","b","b","i","t"," ","t","e","a","p","o","t"," ","t","e","a">>)
  @@ (421 :> <<"r","a","b","b","i","t"," ","w","r","o","n","g"," ","p","l","a","c","e"," ","m","i","s","d","i","r","e","c","t","e","d">>)
  @@ (422 :> <<"r","a","b","b","i","t"," ","r","u","l","e","s"," ","v","a","l","i","d","a","t","i","o","n">>)
  @@ (423 :> <<"r","a","b","b","i","t"," ","l","o","c","k","e","d"," ","c","a","g","e">>)
  @@ (424 :> <<"r","a","b","b","i","t"," ","c","h","a","i","n"," ","d","e","p","e","n","d","e","n","t">>)
  @@ (425 :> <<"r","a","b","b","i","t"," ","e","a","r","l","y"," ","t","o","o"," ","s","o","o","n">>)
  @@ (426 :> <<"r","a","b","b","i","t"," ","u","p","g","r","a","d","e"," ","l","e","v","e","l"," ","u","p">>)
  @@ (428 :> <<"r","a","b","b","i","t"," ","r","e","q","u","i","r","e","m","e","n","t"," ","n","e","e","d","e","d">>)
  @@ (429 :> <<"r","a","b","b","i","t"," ","t","i","r","e","d"," ","e","x","h","a","u","s","t","e","d"," ","r","a","t","e"," ","l","i","m","i","t">>)
  @@ (430 :> <<"r","a","b","b","i","t"," ","h","e","a","d","e","r">>)
  @@ (431 :> <<"r","a","b","b","i","t"," ","o","v","e","r","w","h","e","l","m","e","d"," ","t","o","o"," ","m","u","c","h">>)
  @@ (440 :> <<"r","a","b","b","i","t"," ","s","e","s","s","i","o","n"," ","e","x","p","i","r","e","d">>)
  @@ (444 :> <<"r","a","b","b","i","t"," ","s","i","l","e","n","t"," ","n","o"," ","r","e","s","p","o","n","s","e">>)
  @@ (449 :> <<"r","a","b","b","i","t"," ","r","e","t","r","y"," ","a","g","a","i","n">>)
  @@ (450 :> <<"r","a","b","b","i","t"," ","p","a","r","e","n","t","a","l"," ","b","l","o","c","k","e","d">>)
  @@ (451 :> <<"r","a","b","b","i","t"," ","l","e","g","a","l"," ","f","o","r","b","i","d","d","e","n"," ","l","a","w">>)
  @@ (460 :> <<"r","a","b","b","i","t"," ","c","l","o","s","e","d"," ","c","o","n","n","e","c","t","i","o","n">>)
  @@ (463 :> <<"r","a","b","b","i","t"," ","m","a","n","y"," ","a","d","d","r","e","s","s","e","s">>)
  @@ (494 :> <<"r","a","b","b","i","t"," ","h","e","a","d","e","r"," ","l","a","r","g","e">>)
  @@ (495 :> <<"r","a","b","b","i","t"," ","c","e","r","t","i","f","i","c","a","t","e"," ","s","s","l">>)
  @@ (496 :> <<"r","a","b","b","i","t"," ","c","e","r","t","i","f","i","c","a","t","e"," ","r","e","q","u","i","r","e","d">>)
  @@ (497 :> <<"r","a","b","b","i","t"," ","s","e","c","u","r","e"," ","h","t","t","p","s">>)
  @@ (498 :> <<"r","a","b","b","i","t"," ","t","o","k","e","n"," ","i","n","v","a","l","i","d">>)
  @@ (499 :> <<"r","a","b","b","i","t"," ","q","u","i","t"," ","l","e","f","t">>)
  @@ (500 :> <<"r","a","b","b","i","t"," ","b","r","o","k","e","n"," ","e","r","r","o","r"," ","c","r","a","s","h">>)
  @@ (501 :> <<"r","a","b","b","i","t"," ","s","h","r","u","g"," ","n","o","t"," ","i","m","p","l","e","m","e","n","t","e","d">>)
  @@ (502 :> <<"r","a","b","b","i","t"," ","b","a","d"," ","g","a","t","e","w","a","y"," ","m","i","d","d","l","e","m","a","n">>)
  @@ (503 :> <<"r","a","b","b","i","t"," ","m","a","i","n","t","e","n","a","n","c","e"," ","d","o","w","n">>)
  @@ (504 :> <<"r","a","b","b","i","t"," ","t","i","m","e","o","u","t"," ","w","a","i","t","i","n","g"," ","c","l","o","c","k">>)
  @@ (505 :> <<"r","a","b","b","i","t"," ","o","l","d"," ","v","e","r","s","i","o","n"," ","o","u","t","d","a","t","e","d">>)
  @@ (506 :> <<"r","a","b","b","i","t"," ","c","i","r","c","u","l","a","r"," ","l","o","o","p">>)
  @@ (507 :> <<"r","a","b","b","i","t"," ","f","u","l","l"," ","s","t","o","r","a","g","e">>)
  @@ (508 :> <<"r","a","b","b","i","t"," ","i","n","f","i","n","i","t","e"," ","l","o","o","p"," ","d","i","z","z","y">>)
  @@ (510 :> <<"r","a","b","b","i","t"," ","e","x","t","e","n","s","i","o","n"," ","r","e","q","u","i","r","e","d">>)
  @@ (511 :> <<"r","a","b","b","i","t"," ","n","e","t","w","o","r","k"," ","a","u","t","h","e","n","t","i","c","a","t","i","o","n">>)
  @@ (520 :> <<"r","a","b","b","i","t"," ","u","n","k","n","o","w","n"," ","m","y","s","t","e","r","y">>)
  @@ (521 :> <<"r","a","b","b","i","t"," ","d","o","w","n"," ","o","f","f","l","i","n","e">>)
  @@ (522 :> <<"r","a","b","b","i","t"," ","t","i","m","e","o","u","t"," ","c","o","n","n","e","c","t","i","o","n">>)
  @@ (523 :> <<"r","a","b","b","i","t"," ","u","n","r","e","a","c","h","a","b","l","e"," ","f","a","r">>)
  @@ (524 :> <<"r","a","b","b","i","t"," ","t","i","m","e","o","u","t"," ","s","l","o","w">>)
  @@ (525 :> <<"r","a","b","b","i","t"," ","h","a","n","d","s","h","a","k","e"," ","s","s","l">>)
  @@ (526 :> <<"r","a","b","b","i","t"," ","c","e","r","t","i","f","i","c","a","t","e"," ","i","n","v","a","l","i","d">>)
  @@ (527 :> <<"r","a","b","b","i","t"," ","r","a","i","l","g","u","n"," ","e","r","r","o","r">>)
  @@ (529 :> <<"r","a","b","b","i","t"," ","o","v","e","r","l","o","a","d","e","d"," ","s","t","r","e","s","s">>)
  @@ (530 :> <<"r","a","b","b","i","t"," ","f","r","o","z","e","n"," ","i","c","e">>)
  @@ (561 :> <<"r","a","b","b","i","t"," ","u","n","a","u","t","h","o","r","i","z","e","d">>)
  @@ (598 :> <<"r","a","b","b","i","t"," ","n","e","t","w","o","r","k"," ","t","i","m","e","o","u","t">>)
  @@ (599 :> <<"r","a","b","b","i","t"," ","n","e","t","w","o","r","k"," ","t","i","m","e","o","u","t">>)

\* The contextual query table without its entry for 451.
contextualQueriesWithout451 ==
  [c \in (DOMAIN contextualQueries) \ {451} |-> contextualQueries[c]]

(* ---------------------------- status catalog --------------------------- *)

Msg404 == <<"N","o","t"," ","F","o","u","n","d">>

Msg418 == <<"I","'","m"," ","a"," ","t","e","a","p","o","t">>

Msg419 == <<"P","a","g","e"," ","E","x","p","i","r","e","d">>

Msg451 == <<"U","n","a","v","a","i","l","a","b","l","e"," ","F","o","r"," ","L","e","g","a","l"," ","R","e","a","s","o","n","s">>

Msg500 == <<"I","n","t","e","r","n","a","l"," ","S","e","r","v","e","r"," ","E","r","r","o","r">>

\* An excerpt of the catalog, in catalog order; 419 has no contextual query.
CatalogExcerpt ==
  << [code |-> 404, message |-> Msg404],
     [code |-> 418, message |-> Msg418],
     [code |-> 419, message |-> Msg419],
     [code |-> 451, message |-> Msg451],
     [code |-> 500, message |-> Msg500] >>

httpStatusCodes == SubSeq(CatalogExcerpt, 1, CatalogLen)

CatalogCodes == {httpStatusCodes[i].code : i \in DOMAIN httpStatusCodes}

(* -------------------------------- state -------------------------------- *)

VARIABLES
  key,          \* UNSPLASH_ACCESS_KEY as read from the environment
  dirExists,    \* whether public/rabbits exists
  files,        \* public/rabbits: code |-> content of "<code>.jpg" (NoFile if absent)
  doc,          \* content of src/data/imagePlaceholders.json (NoDoc if absent)
  pc,           \* position of the script
  idx,          \* position of the for loop of main in httpStatusCodes
  successCount,
  failCount,
  summary,      \* the printed results, NoSummary until printed
  runs,         \* number of times the script was started
  trace,        \* per run: one record per catalog entry the loop has handled
  docWrites,    \* content of the mapping document after each placeholder run
  rpc,          \* position of searchUnsplashRabbit
  rargs,        \* its arguments
  rret,         \* its return value
  rlog,         \* what it printed during the current call
  requests,     \* the requests it issued during the current call
  outcomes,     \* the responses it received during the current call
  inflight      \* requests issued and not yet answered

mainVars ==
  <<dirExists, files, doc, pc, idx, successCount, failCount, summary, runs,
    trace, docWrites>>

resolverVars == <<rpc, rargs, rret, rlog, requests, outcomes>>

vars == <<key, mainVars, resolverVars, inflight>>

NoFile == "<no file>"

NoDoc == <<>>

NoSummary == [printed |-> FALSE, success |-> 0, failed |-> 0]

NoArgs == [statusCode |-> 0, message |-> <<>>]

(* ------------------------------ the service ---------------------------- *)

SearchEndpoint == "https://api.unsplash.com/search/photos"

\* urls.regular of the first result of a search that found something
PhotoUrl == "https://images.unsplash.com/photo-1"

\* What awaiting fetch(...) and response.json() of a search can produce:
\* a thrown error, a non-ok response, ok with no results, ok with results.
SearchOutcomes == {"throw", "notok", "empty", "found"}

\* What fetch(url), response.arrayBuffer() and fs.writeFileSync can produce in
\* downloadImage: a thrown error, a non-ok response, the bytes written.
DownloadOutcomes == {"throw", "notok", "ok"}

\* GET of the search endpoint with the query string the code builds.
SearchRequest(encodedQuery, accessKey) ==
  [kind |-> "search", url |-> SearchEndpoint, query |-> encodedQuery,
   per_page |-> 3, orientation |-> "landscape", auth |-> accessKey]

DownloadRequest(url) ==
  [kind |-> "download", url |-> url, query |-> <<>>,
   per_page |-> 0, orientation |-> "", auth |-> ""]

(* ------------------------- searchUnsplashRabbit ------------------------ *)

\* !UNSPLASH_ACCESS_KEY, always true
NoKeyNever(k) == FALSE

\* !UNSPLASH_ACCESS_KEY
NoKey(k) == ~Truthy(k)

\* the query built from the message, whatever the table holds
SearchQueryMessageOnly(statusCode, message) ==
  <<"r","a","b","b","i","t"," ">> \o ToLowerCase(message)

\* contextQuery || ... on a table that has no entry for 451
SearchQueryWithout451(statusCode, message) ==
  IF statusCode \in DOMAIN contextualQueriesWithout451
  THEN contextualQueriesWithout451[statusCode]
  ELSE <<"r","a","b","b","i","t"," ">> \o ToLowerCase(message)

\* contextQuery || `rabbit ${message.toLowerCase()}`
SearchQuery(statusCode, message) ==
  IF statusCode \in DOMAIN contextualQueries /\ contextualQueries[statusCode] # <<>>
  THEN contextualQueries[statusCode]
  ELSE <<"r","a","b","b","i","t"," ">> \o ToLowerCase(message)

\* a second tier that searches for the message
FallbackQueryMessage(statusCode, message) ==
  EncodeURIComponent(<<"r","a","b","b","i","t"," ">> \o ToLowerCase(message))

\* the query string of fallbackUrl, written literally in the code
FallbackQuery(statusCode, message) == <<"r","a","b","b","i","t">>

\* The first response, with the try block's catch missing.
OnSearchResponseNoCatch(o) ==
  CASE o = "throw" -> [to |-> "threw",    ret |-> Null,     log |-> <<>>]
    [] o = "notok" -> [to |-> "returned", ret |-> Null,     log |-> <<"failed to search">>]
    [] o = "found" -> [to |-> "returned", ret |-> PhotoUrl, log |-> <<"query", "found">>]
    [] o = "empty" -> [to |-> "fetch2",   ret |-> Null,     log |-> <<"no results, trying generic">>]

\* What the code does with the first response: where it goes, what it
\* returns, what it prints.
OnSearchResponse(o) ==
  CASE o = "throw" -> [to |-> "returned", ret |-> Null,     log |-> <<"error searching">>]
    [] o = "notok" -> [to |-> "returned", ret |-> Null,     log |-> <<"failed to search">>]
    [] o = "found" -> [to |-> "returned", ret |-> PhotoUrl, log |-> <<"query", "found">>]
    [] o = "empty" -> [to |-> "fetch2",   ret |-> Null,     log |-> <<"no results, trying generic">>]

\* What the code does with the response of the fallback search.
OnFallbackResponse(o) ==
  CASE o = "throw" -> [to |-> "returned", ret |-> Null,     log |-> <<"error searching">>]
    [] o = "notok" -> [to |-> "returned", ret |-> Null,     log |-> <<>>]
    [] o = "found" -> [to |-> "returned", ret |-> PhotoUrl, log |-> <<>>]
    [] o = "empty" -> [to |-> "returned", ret |-> Null,     log |-> <<>>]

\* a value for the missing credential that differs from null
NoCredentialReturnDistinct == "<no credential>"

\* the value returned when the credential is missing
NoCredentialReturn == Null

\* The call, up to its first await: the credential check, the query and the
\* first fetch.
ResolverCall(statusCode, message) ==
  /\ rargs' = [statusCode |-> statusCode, message |-> message]
  /\ outcomes' = <<>>
  /\ IF NoKey(key)
     THEN /\ rpc' = "returned"
          /\ rret' = NoCredentialReturn
          /\ rlog' = <<"no access key">>
          /\ requests' = <<>>
          /\ inflight' = inflight
     ELSE LET req == SearchRequest(EncodeURIComponent(SearchQuery(statusCode, message)), key)
          IN  /\ rpc' = "fetch1"
              /\ rret' = Null
              /\ rlog' = <<>>
              /\ requests' = <<req>>
              /\ inflight' = inflight \cup {req}

\* The first search is answered.
SearchResponse(o) ==
  /\ rpc = "fetch1"
  /\ LET r == OnSearchResponse(o)
         req == SearchRequest(FallbackQuery(rargs.statusCode, rargs.message), key)
     IN  /\ rpc' = r.to
         /\ rret' = r.ret
         /\ rlog' = rlog \o r.log
         /\ outcomes' = Append(outcomes, o)
         /\ IF r.to = "fetch2"
            THEN /\ requests' = Append(requests, req)
                 /\ inflight' = (inflight \ {requests[Len(requests)]}) \cup {req}
            ELSE /\ requests' = requests
                 /\ inflight' = inflight \ {requests[Len(requests)]}
  /\ UNCHANGED <<key, mainVars, rargs>>

\* The fallback search is answered.
FallbackResponse(o) ==
  /\ rpc = "fetch2"
  /\ LET r == OnFallbackResponse(o)
     IN  /\ rpc' = r.to
         /\ rret' = r.ret
         /\ rlog' = rlog \o r.log
  /\ outcomes' = Append(outcomes, o)
  /\ inflight' = inflight \ {requests[Len(requests)]}
  /\ UNCHANGED <<key, mainVars, rargs, requests>>

(* -------------------------------- main --------------------------------- *)

\* `${status.code}.jpg` in publicDir; the file table is keyed by the code.
FileName(code) == <<code, ".jpg">>

\* fs.existsSync that never finds the file
ExistsSyncNever(fileTable, code) == FALSE

\* fs.existsSync(filepath)
ExistsSync(fileTable, code) == fileTable[code] # NoFile

\* `https://picsum.photos/seed/${status.code}/800/600`
PlaceholderUrl(code) == <<"https://picsum.photos/seed/", code, "/800/600">>

\* The loop that fills the placeholders object, one assignment per entry.
RECURSIVE BuildPlaceholders(_, _)
BuildPlaceholders(i, obj) ==
  IF i > Len(httpStatusCodes) THEN obj
  ELSE LET c == httpStatusCodes[i].code
       IN  BuildPlaceholders(i + 1,
             [k \in (DOMAIN obj) \cup {c} |->
                IF k = c THEN PlaceholderUrl(c) ELSE obj[k]])

EmptyObject == [k \in {} |-> <<>>]

Min(S) == CHOOSE x \in S : \A y \in S : x <= y

\* JSON.stringify of an object with integer keys: one member per key, in
\* ascending key order.
RECURSIVE JSONStringify(_)
JSONStringify(obj) ==
  IF DOMAIN obj = {} THEN <<>>
  ELSE LET k == Min(DOMAIN obj)
       IN  <<[key |-> k, value |-> obj[k]]>>
             \o JSONStringify([j \in (DOMAIN obj) \ {k} |-> obj[j]])

\* a write that keeps what the file held and appends
WriteFileSyncAppend(old, data) == old \o data

\* fs.writeFileSync(path, data): the file holds data and nothing else
WriteFileSync(old, data) == data

\* A trace record of one catalog entry.
Entry(code, existed, reqs, outs, download) ==
  [code |-> code, existed |-> existed, searches |-> reqs, outcomes |-> outs,
   downloads |-> download, downloadOutcome |-> "none", wrote |-> FALSE,
   delayed |-> FALSE]

\* Module body before main(): create public/rabbits when it is missing.
TopLevel ==
  /\ pc = "top"
  /\ dirExists' = TRUE
  /\ pc' = "main"
  /\ UNCHANGED <<key, files, doc, idx, successCount, failCount, summary, runs,
                 trace, docWrites, resolverVars, inflight>>

\* main() without a credential: write the placeholder mapping and return.
MainPlaceholder ==
  /\ pc = "main"
  /\ NoKey(key)
  /\ doc' = WriteFileSync(doc, JSONStringify(BuildPlaceholders(1, EmptyObject)))
  /\ docWrites' = Append(docWrites, doc')
  /\ pc' = "exit"
  /\ UNCHANGED <<key, dirExists, files, idx, successCount, failCount, summary,
                 runs, trace, resolverVars, inflight>>

\* main() with a credential: the counters, then the loop.
MainLive ==
  /\ pc = "main"
  /\ ~NoKey(key)
  /\ successCount' = 0
  /\ failCount' = 0
  /\ idx' = 1
  /\ pc' = "loop"
  /\ UNCHANGED <<key, dirExists, files, doc, summary, runs, trace, docWrites,
                 resolverVars, inflight>>

\* Loop head, file present: count it and continue with the next entry.
SkipExisting ==
  /\ pc = "loop"
  /\ idx <= Len(httpStatusCodes)
  /\ ExistsSync(files, httpStatusCodes[idx].code)
  /\ successCount' = successCount + 1
  /\ idx' = idx + 1
  /\ trace' = Append(trace,
       Entry(httpStatusCodes[idx].code,
             files[httpStatusCodes[idx].code] # NoFile, <<>>, <<>>, <<>>))
  /\ UNCHANGED <<key, dirExists, files, doc, pc, failCount, summary, runs,
                 docWrites, resolverVars, inflight>>

\* Loop head, file absent: call the resolver and await it.
StartSearch ==
  /\ pc = "loop"
  /\ idx <= Len(httpStatusCodes)
  /\ ~ExistsSync(files, httpStatusCodes[idx].code)
  /\ ResolverCall(httpStatusCodes[idx].code, httpStatusCodes[idx].message)
  /\ pc' = "search"
  /\ UNCHANGED <<key, dirExists, files, doc, idx, successCount, failCount, summary,
                 runs, trace, docWrites>>

\* downloadImage with its catch missing
DownloadImageNoCatch(o) ==
  CASE o = "ok"    -> [threw |-> FALSE, success |-> TRUE,  written |-> TRUE]
    [] o = "notok" -> [threw |-> FALSE, success |-> FALSE, written |-> FALSE]
    [] o = "throw" -> [threw |-> TRUE,  success |-> FALSE, written |-> FALSE]

\* downloadImage: true when the bytes were fetched and written, false on a
\* non-ok response and on anything thrown.
DownloadImage(o) ==
  CASE o = "ok"    -> [threw |-> FALSE, success |-> TRUE,  written |-> TRUE]
    [] o = "notok" -> [threw |-> FALSE, success |-> FALSE, written |-> FALSE]
    [] o = "throw" -> [threw |-> FALSE, success |-> FALSE, written |-> FALSE]

\* going on to the next entry without waiting
RateLimitNone(i) == [pc |-> "loop", idx |-> i + 1]

\* await new Promise((resolve) => setTimeout(resolve, 1000)) at the end of
\* the loop body
RateLimit(i) == [pc |-> "delay", idx |-> i]

\* The resolver has returned: start the download, or count a failure.
AfterSearch ==
  /\ pc = "search"
  /\ rpc \in {"returned", "threw"}
  /\ rpc' = "idle"
  /\ trace' = Append(trace,
       Entry(httpStatusCodes[idx].code,
             files[httpStatusCodes[idx].code] # NoFile, requests, outcomes,
             IF rpc = "returned" /\ Truthy(rret)
             THEN <<DownloadRequest(rret)>> ELSE <<>>))
  /\ IF rpc = "threw"
     THEN /\ pc' = "crashed"
          /\ UNCHANGED <<idx, failCount, inflight>>
     ELSE IF Truthy(rret)
     THEN /\ inflight' = inflight \cup {DownloadRequest(rret)}
          /\ pc' = "download"
          /\ UNCHANGED <<idx, failCount>>
     ELSE /\ failCount' = failCount + 1
          /\ pc' = RateLimit(idx).pc
          /\ idx' = RateLimit(idx).idx
          /\ UNCHANGED inflight
  /\ UNCHANGED <<key, dirExists, files, doc, successCount, summary, runs,
                 docWrites, rargs, rret, rlog, requests, outcomes>>

\* The download is answered: write the file and count the entry.
DownloadResponse(o) ==
  /\ pc = "download"
  /\ LET r == DownloadImage(o)
         code == httpStatusCodes[idx].code
         req == trace[Len(trace)].downloads[1]
     IN  /\ inflight' = inflight \ {req}
         /\ files' = IF r.written THEN [files EXCEPT ![code] = req.url] ELSE files
         /\ trace' = [trace EXCEPT ![Len(trace)].downloadOutcome = o,
                                   ![Len(trace)].wrote = r.written]
         /\ IF r.threw
            THEN /\ pc' = "crashed"
                 /\ UNCHANGED <<idx, successCount, failCount>>
            ELSE /\ pc' = RateLimit(idx).pc
                 /\ idx' = RateLimit(idx).idx
                 /\ IF r.success
                    THEN successCount' = successCount + 1 /\ UNCHANGED failCount
                    ELSE failCount' = failCount + 1 /\ UNCHANGED successCount
  /\ UNCHANGED <<key, dirExists, doc, summary, runs, docWrites, resolverVars>>

\* The timer of the rate limit fires: next entry.
DelayElapsed ==
  /\ pc = "delay"
  /\ trace' = [trace EXCEPT ![Len(trace)].delayed = TRUE]
  /\ idx' = idx + 1
  /\ pc' = "loop"
  /\ UNCHANGED <<key, dirExists, files, doc, successCount, failCount, summary,
                 runs, docWrites, resolverVars, inflight>>

\* The loop is over: print the results.
Summary ==
  /\ pc = "loop"
  /\ idx > Len(httpStatusCodes)
  /\ summary' = [printed |-> TRUE, success |-> successCount, failed |-> failCount]
  /\ pc' = "exit"
  /\ UNCHANGED <<key, dirExists, files, doc, idx, successCount, failCount, runs,
                 trace, docWrites, resolverVars, inflight>>

\* The script is started again on the file system the last run left.
Rerun ==
  /\ pc \in {"exit", "crashed"}
  /\ runs < MaxRuns
  /\ runs' = runs + 1
  /\ key' \in EnvValues
  /\ pc' = "top"
  /\ idx' = 0
  /\ successCount' = 0
  /\ failCount' = 0
  /\ summary' = NoSummary
  /\ trace' = <<>>
  /\ rpc' = "idle"
  /\ rargs' = NoArgs
  /\ rret' = Null
  /\ rlog' = <<>>
  /\ requests' = <<>>
  /\ outcomes' = <<>>
  /\ inflight' = {}
  /\ UNCHANGED <<dirExists, files, doc, docWrites>>

(* --------------------------- specifications ---------------------------- *)

\* A mapping document left by something else: a foreign key, a foreign value.
StaleDoc ==
  << [key |-> 404, value |-> <<"https://example.org/", 404, "/old">>],
     [key |-> 999, value |-> <<"https://example.org/", 999, "/old">>] >>

OldBytes == "bytes of an earlier download"

Init ==
  /\ key \in EnvValues
  /\ dirExists \in BOOLEAN
  /\ files \in [CatalogCodes -> {NoFile, OldBytes}]
  /\ (~dirExists => \A c \in CatalogCodes : files[c] = NoFile)
  /\ doc \in {NoDoc, StaleDoc}
  /\ pc = "top"
  /\ idx = 0
  /\ successCount = 0
  /\ failCount = 0
  /\ summary = NoSummary
  /\ runs = 1
  /\ trace = <<>>
  /\ docWrites = <<>>
  /\ rpc = "idle"
  /\ rargs = NoArgs
  /\ rret = Null
  /\ rlog = <<>>
  /\ requests = <<>>
  /\ outcomes = <<>>
  /\ inflight = {}

Next ==
  \/ TopLevel
  \/ MainPlaceholder
  \/ MainLive
  \/ SkipExisting
  \/ StartSearch
  \/ \E o \in SearchOutcomes : SearchResponse(o)
  \/ \E o \in SearchOutcomes : FallbackResponse(o)
  \/ AfterSearch
  \/ \E o \in DownloadOutcomes : DownloadResponse(o)
  \/ DelayElapsed
  \/ Summary
  \/ Rerun

Spec == Init /\ [][Next]_vars

\* One run of the script, from any file system.
NextRun ==
  \/ TopLevel
  \/ MainPlaceholder
  \/ MainLive
  \/ SkipExisting
  \/ StartSearch
  \/ \E o \in SearchOutcomes : SearchResponse(o)
  \/ \E o \in SearchOutcomes : FallbackResponse(o)
  \/ AfterSearch
  \/ \E o \in DownloadOutcomes : DownloadResponse(o)
  \/ DelayElapsed
  \/ Summary

\* Every awaited fetch settles and every timer fires, so a step of the run
\* that is possible is eventually taken.
FairSpec == Init /\ [][NextRun]_vars /\ WF_vars(NextRun)

\* The resolver called on its own, with any credential, code and message.
HarnessCodes == (DOMAIN contextualQueries) \cup {419, 420}

HarnessMessages == {CatalogExcerpt[i].message : i \in DOMAIN CatalogExcerpt}

InitResolver ==
  /\ key \in EnvValues
  /\ dirExists = TRUE
  /\ files = [c \in CatalogCodes |-> NoFile]
  /\ doc = NoDoc
  /\ pc = "unit"
  /\ idx = 0
  /\ successCount = 0
  /\ failCount = 0
  /\ summary = NoSummary
  /\ runs = 1
  /\ trace = <<>>
  /\ docWrites = <<>>
  /\ rpc = "idle"
  /\ rargs = NoArgs
  /\ rret = Null
  /\ rlog = <<>>
  /\ requests = <<>>
  /\ outcomes = <<>>
  /\ inflight = {}

HarnessCall ==
  /\ pc = "unit"
  /\ rpc = "idle"
  /\ \E c \in HarnessCodes, m \in HarnessMessages : ResolverCall(c, m)
  /\ UNCHANGED <<key, mainVars>>

HarnessReturn ==
  /\ pc = "unit"
  /\ rpc \in {"returned", "threw"}
  /\ rpc' = "idle"
  /\ rargs' = NoArgs
  /\ rret' = Null
  /\ rlog' = <<>>
  /\ requests' = <<>>
  /\ outcomes' = <<>>
  /\ UNCHANGED <<key, mainVars, inflight>>

NextResolver ==
  \/ HarnessCall
  \/ \E o \in SearchOutcomes : SearchResponse(o)
  \/ \E o \in SearchOutcomes : FallbackResponse(o)
  \/ HarnessReturn

SpecResolver == InitResolver /\ [][NextResolver]_vars

TypeOK ==
  /\ key \in EnvValues
  /\ pc \in {"top", "main", "loop", "search", "download", "delay", "exit", "crashed", "unit"}
  /\ rpc \in {"idle", "fetch1", "fetch2", "returned", "threw"}
  /\ idx \in 0..(Len(httpStatusCodes) + 1)
  /\ successCount \in 0..Len(httpStatusCodes)
  /\ failCount \in 0..Len(httpStatusCodes)
  /\ runs \in 1..MaxRuns

(* ------------------------------- claims -------------------------------- *)

\* The environment gives the script a usable credential.
CredentialPresent == key # Undefined /\ key # ""

\* What the service reads from a query string: percent escapes undone.
RECURSIVE DecodeURIComponent(_)
DecodeURIComponent(s) ==
  IF s = <<>> THEN <<>>
  ELSE IF Head(s) = "%" /\ Len(s) >= 3
       THEN <<CHOOSE c \in DOMAIN PercentEscape : PercentEscape[c] = SubSeq(s, 1, 3)>>
              \o DecodeURIComponent(SubSeq(s, 4, Len(s)))
       ELSE <<Head(s)>> \o DecodeURIComponent(Tail(s))

\* The search phrase of the i-th request of the current resolver call.
Sent(i) == DecodeURIComponent(requests[i].query)

Q451Message == <<"r","a","b","b","i","t"," ","u","n","a","v","a","i","l","a","b","l","e"," ","f","o","r"," ","l","e","g","a","l"," ","r","e","a","s","o","n","s">>

Q451Context == <<"r","a","b","b","i","t"," ","l","e","g","a","l"," ","f","o","r","b","i","d","d","e","n"," ","l","a","w">>

Q418Context == <<"r","a","b","b","i","t"," ","t","e","a","p","o","t"," ","t","e","a">>

Q418Message == <<"r","a","b","b","i","t"," ","i","'","m"," ","a"," ","t","e","a","p","o","t">>

QGeneric == <<"r","a","b","b","i","t">>

\* The entry made network calls.
UsedNetwork(e) == e.searches # <<>> \/ e.downloads # <<>>

\* The entry's search or download failed, read from the responses.
SearchFailed(e) == e.outcomes # <<>> /\ e.outcomes[Len(e.outcomes)] # "found"

DownloadFailed(e) == e.downloadOutcome \in {"throw", "notok"}

Count(P(_)) == Cardinality({i \in DOMAIN trace : P(trace[i])})

Existed(e) == e.existed

Wrote(e) == e.wrote

Failed(e) == SearchFailed(e) \/ DownloadFailed(e)

\* C1: in live-fetch mode an entry whose file exists when the loop reaches it
\* causes no search request and no download request, its file is not
\* written, and it is counted as a success; network calls are only made for
\* entries whose file is missing.
C1_ExistingFileSkipped ==
  CredentialPresent =>
    /\ \A i \in DOMAIN trace :
         trace[i].existed =>
           /\ trace[i].searches = <<>>
           /\ trace[i].downloads = <<>>
           /\ ~trace[i].wrote
    /\ pc \in {"search", "download"} => files[httpStatusCodes[idx].code] = NoFile
    /\ successCount = Count(Existed) + Count(Wrote)

C1_Witness ==
  /\ CredentialPresent
  /\ summary.printed
  /\ \E i \in DOMAIN trace : trace[i].existed /\ files[trace[i].code] = OldBytes
  /\ \E i \in DOMAIN trace : trace[i].wrote
  /\ runs = 1

\* The safety half of C2.
C2_Contained ==
  /\ pc # "crashed"
  /\ summary.printed =>
       /\ Len(trace) = Len(httpStatusCodes)
       /\ \A i \in DOMAIN trace : trace[i].code = httpStatusCodes[i].code
       /\ summary.success + summary.failed = Len(httpStatusCodes)
       /\ summary.failed = Count(Failed)

\* C2: in live-fetch mode a failed search or download never ends the batch;
\* every entry is handled in catalog order, the summary is always printed,
\* and it reports success + failed = N with failed the number of entries
\* whose search or download failed.
C2_FailureNeverAborts ==
  /\ []C2_Contained
  /\ (CredentialPresent /\ pc = "loop") ~> summary.printed

C2_Witness ==
  /\ summary.printed
  /\ summary.failed = 1
  /\ summary.success = Len(httpStatusCodes) - 1
  /\ trace[1].downloadOutcome = "throw"
  /\ \A i \in 2..Len(trace) : trace[i].wrote

\* C3: without a credential a run makes no network call of any kind; it
\* writes the mapping document and returns.
C3_NoNetworkWithoutCredential ==
  ~CredentialPresent =>
    /\ inflight = {}
    /\ requests = <<>>
    /\ trace = <<>>
    /\ pc \in {"top", "main", "exit"}
    /\ ~summary.printed
    /\ pc = "exit" => doc # NoDoc

C3_Witness ==
  /\ ~CredentialPresent
  /\ pc = "exit"
  /\ doc # NoDoc
  /\ Len(docWrites) = 1

\* C4: after a placeholder run the mapping document has exactly one entry
\* per catalog code and no other key, each value is the URL seeded by its
\* code, and every placeholder run leaves the same document, whatever the
\* document held before.
C4_PlaceholderTotalIdempotent ==
  /\ (~CredentialPresent /\ pc = "exit") =>
       /\ Len(doc) = Cardinality(CatalogCodes)
       /\ {doc[i].key : i \in DOMAIN doc} = CatalogCodes
       /\ \A i \in DOMAIN doc :
            doc[i].value = <<"https://picsum.photos/seed/", doc[i].key, "/800/600">>
       /\ docWrites # <<>> /\ docWrites[Len(docWrites)] = doc
  /\ \A i, j \in DOMAIN docWrites : docWrites[i] = docWrites[j]

C4_Witness ==
  /\ ~CredentialPresent
  /\ pc = "exit"
  /\ Len(docWrites) >= 2
  /\ Len(doc) = Len(httpStatusCodes)

\* The call is for a code that has a contextual query.
ContextualCall == rargs.statusCode \in DOMAIN contextualQueries

\* C5 as stated: after a contextual search with zero results the next
\* search is "rabbit " + lower-cased message.
C5_ThreeTier ==
  (ContextualCall /\ outcomes # <<>> /\ outcomes[1] = "empty") =>
    /\ Len(requests) >= 2
    /\ Sent(2) = <<"r","a","b","b","i","t"," ">> \o ToLowerCase(rargs.message)

\* C5, amended: the resolver has two tiers.  After a contextual search with
\* zero results the next and last search is the generic "rabbit"; the
\* message search is never issued for a code that has a contextual query, and
\* a call issues at most two searches.
C5_TwoTier ==
  /\ Len(requests) <= 2
  /\ (ContextualCall /\ outcomes # <<>> /\ outcomes[1] = "empty") =>
       /\ Len(requests) = 2
       /\ Sent(2) = QGeneric
  /\ ContextualCall =>
       \A i \in DOMAIN requests :
         Sent(i) # <<"r","a","b","b","i","t"," ">> \o ToLowerCase(rargs.message)

C5_Witness ==
  /\ rpc = "returned"
  /\ rargs.statusCode = 418
  /\ rargs.message = Msg418
  /\ outcomes = <<"empty", "found">>
  /\ Len(requests) = 2

\* C6: the resolver never raises; it returns null when every search it
\* issued had zero results, when a search was answered with a non-success
\* status, and when a search threw.
C6_ResolverNeverRaises ==
  /\ rpc # "threw"
  /\ rpc = "returned" =>
       /\ (outcomes # <<>> /\ \A i \in DOMAIN outcomes : outcomes[i] = "empty")
            => rret = Null
       /\ (\E i \in DOMAIN outcomes : outcomes[i] \in {"notok", "throw"})
            => rret = Null

C6_Witness ==
  /\ rpc = "returned"
  /\ outcomes = <<"throw">>
  /\ rret = Null

\* C7 as stated: the value returned without a credential differs from the
\* value returned when nothing was found (null).
C7_DistinctOutcome ==
  (rpc = "returned" /\ ~CredentialPresent) => rret # Null

\* C7, amended: called without a credential the resolver issues no search
\* and returns null, the value it also returns when its searches find
\* nothing; only the printed message tells the two apart.
C7_SameNull ==
  /\ (rpc = "returned" /\ ~CredentialPresent) =>
       /\ rret = Null
       /\ requests = <<>>
       /\ rlog = <<"no access key">>
  /\ (rpc = "returned" /\ CredentialPresent /\ outcomes = <<"empty", "empty">>) =>
       /\ rret = Null
       /\ rlog # <<"no access key">>

C7_Witness ==
  /\ rpc = "returned"
  /\ ~CredentialPresent
  /\ rret = Null
  /\ rargs.statusCode = 404

\* C8 as stated: the first search for 451 "Unavailable For Legal Reasons"
\* is "rabbit unavailable for legal reasons".
C8_MessageFirstFor451 ==
  (rargs.statusCode = 451 /\ rargs.message = Msg451 /\ requests # <<>>) =>
    Sent(1) = Q451Message

\* C8, amended: 451 has a contextual query, "rabbit legal forbidden law";
\* the first search for 451 is that phrase, before any generic fallback, and
\* "rabbit unavailable for legal reasons" is not searched for.
C8_ContextFirstFor451 ==
  /\ 451 \in DOMAIN contextualQueries
  /\ (rargs.statusCode = 451 /\ rargs.message = Msg451 /\ requests # <<>>) =>
       /\ Sent(1) = Q451Context
       /\ \A i \in DOMAIN requests : Sent(i) # Q451Message
       /\ Len(requests) = 2 => Sent(2) = QGeneric

C8_Witness ==
  /\ rargs.statusCode = 451
  /\ rargs.message = Msg451
  /\ rpc = "returned"
  /\ Len(requests) = 2

\* C9: for a code that has a contextual query the first search is exactly
\* that phrase, not the generic term and not "rabbit " + message; for 418 it
\* is "rabbit teapot tea".
C9_ContextualFirst ==
  (ContextualCall /\ requests # <<>>) =>
    /\ Sent(1) = contextualQueries[rargs.statusCode]
    /\ Sent(1) # QGeneric
    /\ Sent(1) # <<"r","a","b","b","i","t"," ">> \o ToLowerCase(rargs.message)
    /\ (rargs.statusCode = 418 /\ rargs.message = Msg418) =>
         (Sent(1) = Q418Context /\ Sent(1) # Q418Message)

C9_Witness ==
  /\ rargs.statusCode = 418
  /\ rargs.message = Msg418
  /\ rpc = "fetch1"
  /\ Len(requests) = 1

\* The entry is finished: the loop has moved on from it.
Finished(i) == i < Len(trace) \/ pc \in {"loop", "search", "exit"}

\* C10: in live-fetch mode an entry that made a network call is followed by
\* one delay that ends before the next entry's first network call, a skipped
\* entry is followed by none, entries are handled one at a time in catalog
\* order, and at most one network call is outstanding.
C10_DelayAfterNetwork ==
  CredentialPresent =>
    /\ Cardinality(inflight) <= 1
    /\ \A i \in DOMAIN trace :
         /\ trace[i].code = httpStatusCodes[i].code
         /\ trace[i].existed => ~trace[i].delayed
         /\ trace[i].delayed => UsedNetwork(trace[i])
         /\ (Finished(i) /\ UsedNetwork(trace[i])) => trace[i].delayed
    /\ inflight # {} => pc \in {"search", "download"}
    /\ pc = "search" => idx = Len(trace) + 1
    /\ pc \in {"download", "delay"} => idx = Len(trace)

C10_Witness ==
  /\ CredentialPresent
  /\ summary.printed
  /\ \E i \in DOMAIN trace : trace[i].existed /\ ~trace[i].delayed
  /\ \E i \in DOMAIN trace : trace[i].delayed /\ trace[i].downloadOutcome = "notok"
  /\ \E i \in DOMAIN trace : trace[i].delayed /\ trace[i].downloads = <<>>

====
